---- MODULE Spec2Model ----
(***************************************************************************)
(* TensorMap (tensorflow/core/kernels/tensor_map.h): a handle holding      *)
(* three header fields by value and a pointer tensors_ to a refcounted     *)
(* Tensors block that owns the key -> value table.                         *)
(*                                                                         *)
(* Handles are the TensorMap objects of the program (named slots that are  *)
(* either constructed or not); blocks are the heap cells that `new         *)
(* Tensors` can return.                                                    *)
(***************************************************************************)
EXTENDS Integers, Sequences, FiniteSets, TLC

(***************************************************************************)
(* Bounds of the model.                                                    *)
(***************************************************************************)
NumHandles == 3
MaxStorages == 2
NumKeys == 2

Handles == 1..NumHandles
\* the handles of the single-threaded specifications; the specification of
\* concurrent callers has one handle more, so that one thread can construct a
\* copy while another destroys a sharer that is not the source of that copy
SeqHandles == 1..(NumHandles - 1)
Blocks == 1..MaxStorages
Keys == 1..NumKeys

(***************************************************************************)
(* Values of the program.                                                  *)
(***************************************************************************)
\* nullptr, the value tensors_ holds after the handle was move-constructed from
NULL == 0
\* Tensor(): the default-constructed (empty) tensor
DefaultTensor == -1
\* Tensor(0): the scalar zero that Zeros() stores
ZeroTensor == 0
\* the tensors callers store as values: the empty tensor and the scalar zero
Tensors == {DefaultTensor, ZeroTensor}
\* PartialTensorShape values; a default-constructed one has unknown rank
UnknownShape == "unknown"
Shapes == {UnknownShape, "scalar"}
DTypes == {"DT_FLOAT", "DT_INT32"}
\* int max_num_elements = -1
DefaultMaxNumElements == -1
MaxNumElementsValues == {DefaultMaxNumElements, 0}

VARIABLES
  live,              \* live[h]: handle h is a constructed TensorMap object
  element_shape,     \* element_shape[h]
  element_dtype,     \* element_dtype[h]
  max_num_elements,  \* max_num_elements[h]
  tensors_,          \* tensors_[h]: a block or NULL
  block,             \* block[b]: "unused", "allocated" (holds a Tensors) or "freed"
  ref_,              \* ref_[b]: RefCounted::ref_ of the Tensors in block b
  values_,           \* values_[b]: the flat_hash_map of the Tensors in block b
  fault,             \* "none", or the member function in which a null tensors_ was
                     \* dereferenced and the process killed, or "data race"
  pending,           \* pending[h]: the handle that the copy constructor of h, run
                     \* by some thread, has read and not yet called Ref() for; NULL
                     \* when no copy construction of h is under way
  observed           \* observed[h]: "exclusive" once a caller saw h.RefCountIsOne()
                     \* return true and has not called a table operation since,
                     \* "stale" when a copy of h was constructed in between,
                     \* "none" otherwise

vars == <<live, element_shape, element_dtype, max_num_elements, tensors_,
          block, ref_, values_, fault, pending, observed>>
handleVars == <<live, element_shape, element_dtype, max_num_elements, tensors_>>
headerVars == <<element_shape, element_dtype, max_num_elements>>
heapVars == <<block, ref_, values_>>
threadVars == <<pending, observed>>

(***************************************************************************)
(* absl::flat_hash_map<TensorKey, Tensor>, as a function whose domain is   *)
(* the set of keys present.                                                *)
(***************************************************************************)
EmptyMap == [k \in {} |-> DefaultTensor]

\* try_emplace(key, value): inserts only when the key is absent; .second
\* tells whether the insertion happened
try_emplace(m, k, v) ==
  IF k \in DOMAIN m
    THEN [map |-> m, second |-> FALSE]
    ELSE [map |-> [x \in (DOMAIN m) \cup {k} |-> IF x = k THEN v ELSE m[x]],
          second |-> TRUE]

\* values_[k]: a reference to the mapped value, value-initializing it first
\* when the key is absent
subscript(m, k) ==
  IF k \in DOMAIN m
    THEN m
    ELSE [x \in (DOMAIN m) \cup {k} |-> IF x = k THEN DefaultTensor ELSE m[x]]

\* values_[k] = v
assign(m, k, v) ==
  LET s == subscript(m, k) IN [s EXCEPT ![k] = v]

\* values_.erase(key): the map without the key, and the number of entries removed
map_erase(m, k) ==
  [map |-> [x \in (DOMAIN m) \ {k} |-> m[x]],
   count |-> IF k \in DOMAIN m THEN 1 ELSE 0]

\* the orders in which begin()..end() may visit a set of keys
RECURSIVE IterOrders(_)
IterOrders(S) ==
  IF S = {} THEN {<<>>}
  ELSE UNION {{<<k>> \o t : t \in IterOrders(S \ {k})} : k \in S}

(***************************************************************************)
(* core::RefCounted, the base class of Tensors.                            *)
(***************************************************************************)
\* new Tensors in block b: reference count 1, empty table
NewTensors(hp, b) ==
  [block |-> [hp.block EXCEPT ![b] = "allocated"],
   ref_ |-> [hp.ref_ EXCEPT ![b] = 1],
   values_ |-> [hp.values_ EXCEPT ![b] = EmptyMap]]

\* tensors_->Ref()
Ref(hp, b) == [hp EXCEPT !.ref_[b] = @ + 1]

\* tensors_->Unref(): drops one reference and deletes the object when that
\* was the last one
Unref(hp, b) ==
  IF hp.ref_[b] = 1
    THEN [block |-> [hp.block EXCEPT ![b] = "freed"],
          ref_ |-> [hp.ref_ EXCEPT ![b] = 0],
          values_ |-> [hp.values_ EXCEPT ![b] = EmptyMap]]
    ELSE [hp EXCEPT !.ref_[b] = @ - 1]

Heap == [block |-> block, ref_ |-> ref_, values_ |-> values_]

SetHeap(hp) ==
  /\ block' = hp.block
  /\ ref_' = hp.ref_
  /\ values_' = hp.values_

\* the block `new` returns: the lowest block not in use (none when the heap
\* is exhausted); blocks are interchangeable, so nothing depends on which
\* free block the allocator picks
FreeBlocks ==
  LET free == {b \in Blocks : block[b] # "allocated"} IN
  {b \in free : \A c \in free : b <= c}

\* a null tensors_ is dereferenced: the process is killed, and with it every
\* object and the whole heap are gone
Crash(f) ==
  /\ fault' = f
  /\ live' = [h \in Handles |-> FALSE]
  /\ element_shape' = [h \in Handles |-> UnknownShape]
  /\ element_dtype' = [h \in Handles |-> "DT_FLOAT"]
  /\ max_num_elements' = [h \in Handles |-> DefaultMaxNumElements]
  /\ tensors_' = [h \in Handles |-> NULL]
  /\ block' = [b \in Blocks |-> "unused"]
  /\ ref_' = [b \in Blocks |-> 0]
  /\ values_' = [b \in Blocks |-> EmptyMap]

(***************************************************************************)
(* Initial state: no TensorMap has been constructed and the heap is empty. *)
(***************************************************************************)
Init ==
  /\ live = [h \in Handles |-> FALSE]
  /\ element_shape = [h \in Handles |-> UnknownShape]
  /\ element_dtype = [h \in Handles |-> "DT_FLOAT"]
  /\ max_num_elements = [h \in Handles |-> DefaultMaxNumElements]
  /\ tensors_ = [h \in Handles |-> NULL]
  /\ block = [b \in Blocks |-> "unused"]
  /\ ref_ = [b \in Blocks |-> 0]
  /\ values_ = [b \in Blocks |-> EmptyMap]
  /\ fault = "none"
  /\ pending = [h \in Handles |-> NULL]
  /\ observed = [h \in Handles |-> "none"]

(***************************************************************************)
(* Construction, assignment and destruction.                               *)
(***************************************************************************)
\* TensorMap() : tensors_(new Tensors) {}
\* element_dtype has no initializer: its value is indeterminate
DefaultConstruct(h) ==
  /\ fault = "none"
  /\ ~live[h]
  /\ \E b \in FreeBlocks, d \in DTypes :
       /\ SetHeap(NewTensors(Heap, b))
       /\ live' = [live EXCEPT ![h] = TRUE]
       /\ element_shape' = [element_shape EXCEPT ![h] = UnknownShape]
       /\ element_dtype' = [element_dtype EXCEPT ![h] = d]
       /\ max_num_elements' = [max_num_elements EXCEPT ![h] = DefaultMaxNumElements]
       /\ tensors_' = [tensors_ EXCEPT ![h] = b]
  /\ UNCHANGED fault

\* a copy constructor that duplicates the table into a block of its own
CopyConstructDeep(h, other) ==
  /\ fault = "none"
  /\ ~live[h]
  /\ live[other]
  /\ \E b \in FreeBlocks :
       IF tensors_[other] = NULL
         THEN Crash("CopyConstruct")
         ELSE LET hp == NewTensors(Heap, b) IN
              /\ SetHeap([hp EXCEPT !.values_[b] = values_[tensors_[other]]])
              /\ live' = [live EXCEPT ![h] = TRUE]
              /\ element_shape' = [element_shape EXCEPT ![h] = element_shape[other]]
              /\ element_dtype' = [element_dtype EXCEPT ![h] = element_dtype[other]]
              /\ max_num_elements' = [max_num_elements EXCEPT ![h] = max_num_elements[other]]
              /\ tensors_' = [tensors_ EXCEPT ![h] = b]
              /\ UNCHANGED fault

\* a copy constructor that shares the block and forgets tensors_->Ref()
CopyConstructNoRef(h, other) ==
  /\ fault = "none"
  /\ ~live[h]
  /\ live[other]
  /\ IF tensors_[other] = NULL
       THEN Crash("CopyConstruct")
       ELSE /\ live' = [live EXCEPT ![h] = TRUE]
            /\ element_shape' = [element_shape EXCEPT ![h] = element_shape[other]]
            /\ element_dtype' = [element_dtype EXCEPT ![h] = element_dtype[other]]
            /\ max_num_elements' = [max_num_elements EXCEPT ![h] = max_num_elements[other]]
            /\ tensors_' = [tensors_ EXCEPT ![h] = tensors_[other]]
            /\ UNCHANGED <<heapVars, fault>>

\* TensorMap(const TensorMap& other)
CopyConstruct(h, other) ==
  /\ fault = "none"
  /\ ~live[h]
  /\ live[other]
  /\ IF tensors_[other] = NULL
       THEN Crash("CopyConstruct")
       ELSE /\ live' = [live EXCEPT ![h] = TRUE]
            /\ element_shape' = [element_shape EXCEPT ![h] = element_shape[other]]
            /\ element_dtype' = [element_dtype EXCEPT ![h] = element_dtype[other]]
            /\ max_num_elements' = [max_num_elements EXCEPT ![h] = max_num_elements[other]]
            /\ tensors_' = [tensors_ EXCEPT ![h] = tensors_[other]]
            /\ SetHeap(Ref(Heap, tensors_[other]))
            /\ UNCHANGED fault

\* a move constructor that leaves rhs.tensors_ pointing to the block
MoveConstructKeepSource(h, rhs) ==
  /\ fault = "none"
  /\ ~live[h]
  /\ live[rhs]
  /\ live' = [live EXCEPT ![h] = TRUE]
  /\ \E s \in Shapes :
       element_shape' = [element_shape EXCEPT ![h] = element_shape[rhs], ![rhs] = s]
  /\ element_dtype' = [element_dtype EXCEPT ![h] = element_dtype[rhs]]
  /\ max_num_elements' = [max_num_elements EXCEPT ![h] = max_num_elements[rhs]]
  /\ tensors_' = [tensors_ EXCEPT ![h] = tensors_[rhs]]
  /\ UNCHANGED <<heapVars, fault>>

\* TensorMap(TensorMap&& rhs)
\* rhs.element_shape is left valid but unspecified by std::move
MoveConstruct(h, rhs) ==
  /\ fault = "none"
  /\ ~live[h]
  /\ live[rhs]
  /\ live' = [live EXCEPT ![h] = TRUE]
  /\ \E s \in Shapes :
       element_shape' = [element_shape EXCEPT ![h] = element_shape[rhs], ![rhs] = s]
  /\ element_dtype' = [element_dtype EXCEPT ![h] = element_dtype[rhs]]
  /\ max_num_elements' = [max_num_elements EXCEPT ![h] = max_num_elements[rhs]]
  /\ tensors_' = [tensors_ EXCEPT ![h] = tensors_[rhs], ![rhs] = NULL]
  /\ UNCHANGED <<heapVars, fault>>

\* a copy assignment that forgets to release the block it held
CopyAssignNoUnref(h, rhs) ==
  /\ fault = "none"
  /\ live[h]
  /\ live[rhs]
  /\ IF h = rhs
       THEN UNCHANGED <<handleVars, heapVars, fault>>
       ELSE IF tensors_[h] = NULL \/ tensors_[rhs] = NULL
         THEN Crash("CopyAssign")
         ELSE /\ element_shape' = [element_shape EXCEPT ![h] = element_shape[rhs]]
              /\ element_dtype' = [element_dtype EXCEPT ![h] = element_dtype[rhs]]
              /\ max_num_elements' = [max_num_elements EXCEPT ![h] = max_num_elements[rhs]]
              /\ tensors_' = [tensors_ EXCEPT ![h] = tensors_[rhs]]
              /\ SetHeap(Ref(Heap, tensors_[rhs]))
              /\ UNCHANGED <<live, fault>>

\* a copy assignment that deletes the block it held instead of releasing
\* one reference to it
CopyAssignDeletes(h, rhs) ==
  /\ fault = "none"
  /\ live[h]
  /\ live[rhs]
  /\ IF h = rhs
       THEN UNCHANGED <<handleVars, heapVars, fault>>
       ELSE IF tensors_[h] = NULL \/ tensors_[rhs] = NULL
         THEN Crash("CopyAssign")
         ELSE /\ element_shape' = [element_shape EXCEPT ![h] = element_shape[rhs]]
              /\ element_dtype' = [element_dtype EXCEPT ![h] = element_dtype[rhs]]
              /\ max_num_elements' = [max_num_elements EXCEPT ![h] = max_num_elements[rhs]]
              /\ tensors_' = [tensors_ EXCEPT ![h] = tensors_[rhs]]
              /\ block' = [block EXCEPT ![tensors_[h]] = "freed"]
              /\ ref_' = [ref_ EXCEPT ![tensors_[h]] = 0]
              /\ values_' = [values_ EXCEPT ![tensors_[h]] = EmptyMap]
              /\ UNCHANGED <<live, fault>>

\* TensorMap& operator=(const TensorMap& rhs)
CopyAssign(h, rhs) ==
  /\ fault = "none"
  /\ live[h]
  /\ live[rhs]
  /\ IF h = rhs
       THEN UNCHANGED <<handleVars, heapVars, fault>>
       ELSE IF tensors_[h] = NULL \/ tensors_[rhs] = NULL
         THEN Crash("CopyAssign")
         ELSE /\ element_shape' = [element_shape EXCEPT ![h] = element_shape[rhs]]
              /\ element_dtype' = [element_dtype EXCEPT ![h] = element_dtype[rhs]]
              /\ max_num_elements' = [max_num_elements EXCEPT ![h] = max_num_elements[rhs]]
              /\ tensors_' = [tensors_ EXCEPT ![h] = tensors_[rhs]]
              /\ SetHeap(Ref(Unref(Heap, tensors_[h]), tensors_[rhs]))
              /\ UNCHANGED <<live, fault>>

\* a move assignment that takes rhs.tensors_ without swapping
MoveAssignNoSwap(h, rhs) ==
  /\ fault = "none"
  /\ live[h]
  /\ live[rhs]
  /\ IF h = rhs
       THEN UNCHANGED <<handleVars>>
       ELSE /\ element_shape' = [element_shape EXCEPT ![h] = element_shape[rhs]]
            /\ element_dtype' = [element_dtype EXCEPT ![h] = element_dtype[rhs]]
            /\ max_num_elements' = [max_num_elements EXCEPT ![h] = max_num_elements[rhs]]
            /\ tensors_' = [tensors_ EXCEPT ![h] = tensors_[rhs]]
            /\ UNCHANGED live
  /\ UNCHANGED <<heapVars, fault>>

\* a move assignment that releases the block it held and leaves rhs null
MoveAssignReleases(h, rhs) ==
  /\ fault = "none"
  /\ live[h]
  /\ live[rhs]
  /\ IF h = rhs
       THEN UNCHANGED <<handleVars, heapVars>>
       ELSE /\ element_shape' = [element_shape EXCEPT ![h] = element_shape[rhs]]
            /\ element_dtype' = [element_dtype EXCEPT ![h] = element_dtype[rhs]]
            /\ max_num_elements' = [max_num_elements EXCEPT ![h] = max_num_elements[rhs]]
            /\ tensors_' = [tensors_ EXCEPT ![h] = tensors_[rhs], ![rhs] = NULL]
            /\ IF tensors_[h] = NULL
                 THEN UNCHANGED heapVars
                 ELSE SetHeap(Unref(Heap, tensors_[h]))
            /\ UNCHANGED live
  /\ UNCHANGED fault

\* TensorMap& operator=(TensorMap&& rhs)
MoveAssign(h, rhs) ==
  /\ fault = "none"
  /\ live[h]
  /\ live[rhs]
  /\ IF h = rhs
       THEN UNCHANGED <<handleVars>>
       ELSE /\ element_shape' = [element_shape EXCEPT ![h] = element_shape[rhs]]
            /\ element_dtype' = [element_dtype EXCEPT ![h] = element_dtype[rhs]]
            /\ max_num_elements' = [max_num_elements EXCEPT ![h] = max_num_elements[rhs]]
            /\ tensors_' = [tensors_ EXCEPT ![h] = tensors_[rhs], ![rhs] = tensors_[h]]
            /\ UNCHANGED live
  /\ UNCHANGED <<heapVars, fault>>

\* ~TensorMap(): releases the reference the handle holds, if it holds one
Destroy(h) ==
  /\ fault = "none"
  /\ live[h]
  /\ live' = [live EXCEPT ![h] = FALSE]
  /\ element_shape' = [element_shape EXCEPT ![h] = UnknownShape]
  /\ element_dtype' = [element_dtype EXCEPT ![h] = "DT_FLOAT"]
  /\ max_num_elements' = [max_num_elements EXCEPT ![h] = DefaultMaxNumElements]
  /\ tensors_' = [tensors_ EXCEPT ![h] = NULL]
  /\ IF tensors_[h] = NULL
       THEN UNCHANGED heapVars
       ELSE SetHeap(Unref(Heap, tensors_[h]))
  /\ UNCHANGED fault

(***************************************************************************)
(* Derived copies.  The local `out` is returned by value into handle out.  *)
(***************************************************************************)
\* a Copy() that hands out another reference to the same block
CopyShallow(h, out) ==
  /\ fault = "none"
  /\ live[h]
  /\ ~live[out]
  /\ IF tensors_[h] = NULL
       THEN Crash("Copy")
       ELSE /\ SetHeap(Ref(Heap, tensors_[h]))
            /\ live' = [live EXCEPT ![out] = TRUE]
            /\ element_shape' = [element_shape EXCEPT ![out] = element_shape[h]]
            /\ element_dtype' = [element_dtype EXCEPT ![out] = element_dtype[h]]
            /\ max_num_elements' = [max_num_elements EXCEPT ![out] = max_num_elements[h]]
            /\ tensors_' = [tensors_ EXCEPT ![out] = tensors_[h]]
            /\ UNCHANGED fault

\* TensorMap Copy() const
Copy(h, out) ==
  /\ fault = "none"
  /\ live[h]
  /\ ~live[out]
  /\ \E b \in FreeBlocks :
       IF tensors_[h] = NULL
         THEN Crash("Copy")
         ELSE LET hp == NewTensors(Heap, b) IN
              /\ SetHeap([hp EXCEPT !.values_[b] = values_[tensors_[h]]])
              /\ live' = [live EXCEPT ![out] = TRUE]
              /\ element_shape' = [element_shape EXCEPT ![out] = element_shape[h]]
              /\ element_dtype' = [element_dtype EXCEPT ![out] = element_dtype[h]]
              /\ max_num_elements' = [max_num_elements EXCEPT ![out] = max_num_elements[h]]
              /\ tensors_' = [tensors_ EXCEPT ![out] = b]
              /\ UNCHANGED fault

\* the while loop of Zeros(): try_emplace(it->first, Tensor(0)) for every
\* entry in iteration order
RECURSIVE ZerosLoop(_, _)
ZerosLoop(it, outmap) ==
  IF it = <<>> THEN outmap
  ELSE ZerosLoop(Tail(it), try_emplace(outmap, Head(it), ZeroTensor).map)

\* a Zeros() that copies the values instead of storing Tensor(0)
ZerosKeepsValues(h, out) ==
  /\ fault = "none"
  /\ live[h]
  /\ ~live[out]
  /\ \E b \in FreeBlocks :
       IF tensors_[h] = NULL
         THEN Crash("Zeros")
         ELSE LET hp == NewTensors(Heap, b) IN
              /\ SetHeap([hp EXCEPT !.values_[b] = values_[tensors_[h]]])
              /\ live' = [live EXCEPT ![out] = TRUE]
              /\ element_shape' = [element_shape EXCEPT ![out] = element_shape[h]]
              /\ element_dtype' = [element_dtype EXCEPT ![out] = element_dtype[h]]
              /\ max_num_elements' = [max_num_elements EXCEPT ![out] = max_num_elements[h]]
              /\ tensors_' = [tensors_ EXCEPT ![out] = b]
              /\ UNCHANGED fault

\* TensorMap Zeros() const
Zeros(h, out) ==
  /\ fault = "none"
  /\ live[h]
  /\ ~live[out]
  /\ \E b \in FreeBlocks :
       IF tensors_[h] = NULL
         THEN Crash("Zeros")
         ELSE \E it \in IterOrders(DOMAIN values_[tensors_[h]]) :
              LET hp == NewTensors(Heap, b) IN
              /\ SetHeap([hp EXCEPT !.values_[b] = ZerosLoop(it, hp.values_[b])])
              /\ live' = [live EXCEPT ![out] = TRUE]
              /\ element_shape' = [element_shape EXCEPT ![out] = element_shape[h]]
              /\ element_dtype' = [element_dtype EXCEPT ![out] = element_dtype[h]]
              /\ max_num_elements' = [max_num_elements EXCEPT ![out] = max_num_elements[h]]
              /\ tensors_' = [tensors_ EXCEPT ![out] = b]
              /\ UNCHANGED fault

(***************************************************************************)
(* Table operations: every one goes through tensors_->values_.             *)
(***************************************************************************)
\* an insert that stores the value even when the key is present
insertOverwrite(h, key, value, r) ==
  /\ fault = "none"
  /\ live[h]
  /\ IF tensors_[h] = NULL
       THEN Crash("insert")
       ELSE /\ UNCHANGED <<handleVars, block, ref_, fault>>
            /\ values_' = [values_ EXCEPT ![tensors_[h]] = assign(@, key, value)]
            /\ r = (key \notin DOMAIN values_[tensors_[h]])

\* an insert that refuses a new entry once size() has reached a
\* non-negative max_num_elements
insertBounded(h, key, value, r) ==
  /\ fault = "none"
  /\ live[h]
  /\ IF tensors_[h] = NULL
       THEN Crash("insert")
       ELSE LET full == /\ max_num_elements[h] >= 0
                        /\ Cardinality(DOMAIN values_[tensors_[h]]) >= max_num_elements[h]
                e == IF full THEN [map |-> values_[tensors_[h]], second |-> FALSE]
                             ELSE try_emplace(values_[tensors_[h]], key, value) IN
            /\ UNCHANGED <<handleVars, block, ref_, fault>>
            /\ values_' = [values_ EXCEPT ![tensors_[h]] = e.map]
            /\ r = e.second

\* bool insert(const TensorKey& key, const Tensor& value)
\* r is the value returned
insert(h, key, value, r) ==
  /\ fault = "none"
  /\ live[h]
  /\ IF tensors_[h] = NULL
       THEN Crash("insert")
       ELSE LET e == try_emplace(values_[tensors_[h]], key, value) IN
            /\ UNCHANGED <<handleVars, block, ref_, fault>>
            /\ values_' = [values_ EXCEPT ![tensors_[h]] = e.map]
            /\ r = e.second

\* an operator[] that reads the table without adding the absent key
OperatorIndexReadOnly(h, k, r) ==
  /\ fault = "none"
  /\ live[h]
  /\ IF tensors_[h] = NULL
       THEN Crash("OperatorIndex")
       ELSE /\ UNCHANGED <<handleVars, block, ref_, fault>>
            /\ values_' = values_
            /\ r = subscript(values_[tensors_[h]], k)[k]

\* Tensor& operator[](TensorKey& k)
\* r is the tensor the returned reference designates
OperatorIndex(h, k, r) ==
  /\ fault = "none"
  /\ live[h]
  /\ IF tensors_[h] = NULL
       THEN Crash("OperatorIndex")
       ELSE LET m == subscript(values_[tensors_[h]], k) IN
            /\ UNCHANGED <<handleVars, block, ref_, fault>>
            /\ values_' = [values_ EXCEPT ![tensors_[h]] = m]
            /\ r = m[k]

\* a replace that keeps the stored value when the key is present
replaceKeepsOld(h, k, v, r) ==
  /\ fault = "none"
  /\ live[h]
  /\ IF tensors_[h] = NULL
       THEN Crash("replace")
       ELSE /\ UNCHANGED <<handleVars, block, ref_, fault>>
            /\ values_' = [values_ EXCEPT ![tensors_[h]] = try_emplace(@, k, v).map]
            /\ r = TRUE

\* bool replace(const TensorKey& k, const Tensor& v)
\* r is the value returned
replace(h, k, v, r) ==
  /\ fault = "none"
  /\ live[h]
  /\ IF tensors_[h] = NULL
       THEN Crash("replace")
       ELSE /\ UNCHANGED <<handleVars, block, ref_, fault>>
            /\ values_' = [values_ EXCEPT ![tensors_[h]] = assign(@, k, v)]
            /\ r = TRUE

\* an erase that counts the entry and leaves it in the table
eraseKeepsEntry(h, key, r) ==
  /\ fault = "none"
  /\ live[h]
  /\ IF tensors_[h] = NULL
       THEN Crash("erase")
       ELSE /\ UNCHANGED <<handleVars, block, ref_, fault>>
            /\ values_' = values_
            /\ r = map_erase(values_[tensors_[h]], key).count

\* size_t erase(TensorKey key)
\* r is the value returned
erase(h, key, r) ==
  /\ fault = "none"
  /\ live[h]
  /\ IF tensors_[h] = NULL
       THEN Crash("erase")
       ELSE LET e == map_erase(values_[tensors_[h]], key) IN
            /\ UNCHANGED <<handleVars, block, ref_, fault>>
            /\ values_' = [values_ EXCEPT ![tensors_[h]] = e.map]
            /\ r = e.count

(***************************************************************************)
(* Queries: they read the state and change nothing.                        *)
(***************************************************************************)
\* a handle on which the class's methods may be called
Usable(h) == live[h] /\ tensors_[h] # NULL

\* tensors(): the table the handle gives access to
tensors(h) == values_[tensors_[h]]

\* size_t size()
size(h) == Cardinality(DOMAIN tensors(h))

\* find(key): the entry found, or end()
End == <<"end">>
find(h, key) ==
  IF key \in DOMAIN tensors(h) THEN <<"entry", key, tensors(h)[key]>> ELSE End

\* bool RefCountIsOne() const
RefCountIsOne(h) == ref_[tensors_[h]] = 1

\* std::vector<Tensor> keys(n): n value-initialized tensors
VectorOfSize(n) == [i \in 1..n |-> DefaultTensor]

\* the while loop of keys(): push_back((Tensor)it->first) for every entry in
\* iteration order; the tensor of a key is the scalar the key wraps
RECURSIVE KeysLoop(_, _)
KeysLoop(it, vec) ==
  IF it = <<>> THEN vec
  ELSE KeysLoop(Tail(it), Append(vec, Head(it)))

\* std::vector<Tensor> keys(), when the table is visited in the order it
keys(h, it) == KeysLoop(it, VectorOfSize(Cardinality(DOMAIN tensors(h))))

(***************************************************************************)
(* The header fields are public data members.                              *)
(***************************************************************************)
\* an element_shape kept with the shared table: a write reaches every
\* handle on the same block
SetElementShapeShared(h, s) ==
  /\ fault = "none"
  /\ live[h]
  /\ element_shape' = [g \in Handles |->
       IF g = h \/ (live[g] /\ tensors_[g] # NULL /\ tensors_[g] = tensors_[h])
         THEN s ELSE element_shape[g]]
  /\ UNCHANGED <<live, element_dtype, max_num_elements, tensors_, heapVars, fault>>

SetElementShape(h, s) ==
  /\ fault = "none"
  /\ live[h]
  /\ element_shape' = [element_shape EXCEPT ![h] = s]
  /\ UNCHANGED <<live, element_dtype, max_num_elements, tensors_, heapVars, fault>>

SetElementDtype(h, d) ==
  /\ fault = "none"
  /\ live[h]
  /\ element_dtype' = [element_dtype EXCEPT ![h] = d]
  /\ UNCHANGED <<live, element_shape, max_num_elements, tensors_, heapVars, fault>>

SetMaxNumElements(h, n) ==
  /\ fault = "none"
  /\ live[h]
  /\ max_num_elements' = [max_num_elements EXCEPT ![h] = n]
  /\ UNCHANGED <<live, element_shape, element_dtype, tensors_, heapVars, fault>>

(***************************************************************************)
(* Serialization.  A VariantTensorData payload is a metadata string, here  *)
(* the sequence of the three header fields, and a sequence of tensors,     *)
(* here key, value, key, value, ... in the iteration order of the table.   *)
(***************************************************************************)
\* the key and value sub-payloads of the entries of m visited in order it
RECURSIVE EncodeLoop(_, _)
EncodeLoop(it, m) ==
  IF it = <<>> THEN <<>>
  ELSE <<Head(it), m[Head(it)]>> \o EncodeLoop(Tail(it), m)

\* void Encode(VariantTensorData* data) const, with it the iteration order
Encode(h, it) ==
  [metadata |-> <<element_dtype[h], max_num_elements[h], element_shape[h]>>,
   tensors |-> EncodeLoop(it, values_[tensors_[h]])]

\* the payload has the three header fields, one value for every key, and
\* every sub-payload decodes as a key or as a value
WellFormed(data) ==
  /\ Len(data.metadata) = 3
  /\ data.metadata[1] \in DTypes
  /\ data.metadata[2] \in MaxNumElementsValues
  /\ data.metadata[3] \in Shapes
  /\ Len(data.tensors) % 2 = 0
  /\ \A i \in 1..Len(data.tensors) :
       IF i % 2 = 1 THEN data.tensors[i] \in Keys
                    ELSE data.tensors[i] \in Tensors

\* the table the sub-payloads ts describe, built entry by entry on top of m
RECURSIVE DecodeLoop(_, _)
DecodeLoop(ts, m) ==
  IF Len(ts) < 2 THEN m
  ELSE DecodeLoop(SubSeq(ts, 3, Len(ts)), assign(m, ts[1], ts[2]))

\* a Decode that adds the decoded entries to the table the destination has
DecodeKeepsTable(h, data, r) ==
  /\ fault = "none"
  /\ live[h]
  /\ IF tensors_[h] = NULL
       THEN Crash("Decode")
       ELSE /\ UNCHANGED <<live, tensors_, block, ref_, fault>>
            /\ r = WellFormed(data)
            /\ IF r
                 THEN /\ element_dtype' = [element_dtype EXCEPT ![h] = data.metadata[1]]
                      /\ max_num_elements' = [max_num_elements EXCEPT ![h] = data.metadata[2]]
                      /\ element_shape' = [element_shape EXCEPT ![h] = data.metadata[3]]
                      /\ values_' = [values_ EXCEPT ![tensors_[h]] =
                                       DecodeLoop(data.tensors, @)]
                 ELSE /\ UNCHANGED headerVars
                      /\ \E m \in {values_[tensors_[h]], EmptyMap} :
                           values_' = [values_ EXCEPT ![tensors_[h]] = m]

\* bool Decode(const VariantTensorData& data)
\* r is the value returned.  What a failed Decode leaves in the destination
\* is unspecified: here it keeps its header fields and keeps or loses its
\* entries
Decode(h, data, r) ==
  /\ fault = "none"
  /\ live[h]
  /\ IF tensors_[h] = NULL
       THEN Crash("Decode")
       ELSE /\ UNCHANGED <<live, tensors_, block, ref_, fault>>
            /\ r = WellFormed(data)
            /\ IF r
                 THEN /\ element_dtype' = [element_dtype EXCEPT ![h] = data.metadata[1]]
                      /\ max_num_elements' = [max_num_elements EXCEPT ![h] = data.metadata[2]]
                      /\ element_shape' = [element_shape EXCEPT ![h] = data.metadata[3]]
                      /\ values_' = [values_ EXCEPT ![tensors_[h]] =
                                       DecodeLoop(data.tensors, EmptyMap)]
                 ELSE /\ UNCHANGED headerVars
                      /\ \E m \in {values_[tensors_[h]], EmptyMap} :
                           values_' = [values_ EXCEPT ![tensors_[h]] = m]

(***************************************************************************)
(* Ownership: every way a handle is made, assigned and destroyed, over     *)
(* tables that hold at most the one entry OwnKey -> ZeroTensor.            *)
(***************************************************************************)
OwnKey == 1

Next ==
  \/ \E h \in SeqHandles : DefaultConstruct(h) /\ UNCHANGED threadVars
  \/ \E h, other \in SeqHandles : CopyConstruct(h, other) /\ UNCHANGED threadVars
  \/ \E h, rhs \in SeqHandles : MoveConstruct(h, rhs) /\ UNCHANGED threadVars
  \/ \E h, rhs \in SeqHandles : CopyAssign(h, rhs) /\ UNCHANGED threadVars
  \/ \E h, rhs \in SeqHandles : MoveAssign(h, rhs) /\ UNCHANGED threadVars
  \/ \E h \in SeqHandles : Destroy(h) /\ UNCHANGED threadVars
  \/ \E h, out \in SeqHandles : Copy(h, out) /\ UNCHANGED threadVars
  \/ \E h, out \in SeqHandles : Zeros(h, out) /\ UNCHANGED threadVars
  \/ \E h \in SeqHandles, r \in BOOLEAN : insert(h, OwnKey, ZeroTensor, r) /\ UNCHANGED threadVars

Spec == Init /\ [][Next]_vars

(***************************************************************************)
(* Tables: handles that share or copy a table, and every table operation   *)
(* on every key with every tensor, called through two handles.             *)
(***************************************************************************)
TableHandles == {1, 2}

NextTable ==
  \/ \E h \in TableHandles : DefaultConstruct(h) /\ UNCHANGED threadVars
  \/ \E h, other \in TableHandles : CopyConstruct(h, other) /\ UNCHANGED threadVars
  \/ \E h, rhs \in TableHandles : CopyAssign(h, rhs) /\ UNCHANGED threadVars
  \/ \E h \in TableHandles : Destroy(h) /\ UNCHANGED threadVars
  \/ \E h, out \in TableHandles : Copy(h, out) /\ UNCHANGED threadVars
  \/ \E h, out \in TableHandles : Zeros(h, out) /\ UNCHANGED threadVars
  \/ \E h \in TableHandles, k \in Keys, v \in Tensors, r \in BOOLEAN : insert(h, k, v, r)
        /\ UNCHANGED threadVars
  \/ \E h \in TableHandles, k \in Keys, r \in Tensors : OperatorIndex(h, k, r)
        /\ UNCHANGED threadVars
  \/ \E h \in TableHandles, k \in Keys, v \in Tensors, r \in BOOLEAN : replace(h, k, v, r)
        /\ UNCHANGED threadVars
  \/ \E h \in TableHandles, k \in Keys, r \in 0..1 : erase(h, k, r) /\ UNCHANGED threadVars

SpecTable == Init /\ [][NextTable]_vars

(***************************************************************************)
(* Header fields: handles that share a table, writes to every header       *)
(* field, and table operations on the entry OwnKey -> ZeroTensor, called   *)
(* through two handles.                                                    *)
(***************************************************************************)
NextHeader ==
  \/ \E h \in TableHandles : DefaultConstruct(h) /\ UNCHANGED threadVars
  \/ \E h, other \in TableHandles : CopyConstruct(h, other) /\ UNCHANGED threadVars
  \/ \E h \in TableHandles : Destroy(h) /\ UNCHANGED threadVars
  \/ \E h \in TableHandles, s \in Shapes : SetElementShape(h, s) /\ UNCHANGED threadVars
  \/ \E h \in TableHandles, d \in DTypes : SetElementDtype(h, d) /\ UNCHANGED threadVars
  \/ \E h \in TableHandles, n \in MaxNumElementsValues : SetMaxNumElements(h, n)
        /\ UNCHANGED threadVars
  \/ \E h \in TableHandles, r \in BOOLEAN : insert(h, OwnKey, ZeroTensor, r) /\ UNCHANGED threadVars
  \/ \E h \in TableHandles, r \in 0..1 : erase(h, OwnKey, r) /\ UNCHANGED threadVars

SpecHeader == Init /\ [][NextHeader]_vars

(***************************************************************************)
(* max_num_elements: writes to the field and every table operation on      *)
(* every key with every tensor, called through two handles.                *)
(***************************************************************************)
NextAdvisory ==
  \/ \E h \in TableHandles : DefaultConstruct(h) /\ UNCHANGED threadVars
  \/ \E h \in TableHandles : Destroy(h) /\ UNCHANGED threadVars
  \/ \E h \in TableHandles, n \in MaxNumElementsValues : SetMaxNumElements(h, n)
        /\ UNCHANGED threadVars
  \/ \E h \in TableHandles, k \in Keys, v \in Tensors, r \in BOOLEAN : insert(h, k, v, r)
        /\ UNCHANGED threadVars
  \/ \E h \in TableHandles, k \in Keys, r \in Tensors : OperatorIndex(h, k, r)
        /\ UNCHANGED threadVars
  \/ \E h \in TableHandles, k \in Keys, v \in Tensors, r \in BOOLEAN : replace(h, k, v, r)
        /\ UNCHANGED threadVars
  \/ \E h \in TableHandles, k \in Keys, r \in 0..1 : erase(h, k, r) /\ UNCHANGED threadVars

SpecAdvisory == Init /\ [][NextAdvisory]_vars

(***************************************************************************)
(* Serialization: tables filled through two handles that differ in         *)
(* element_dtype and max_num_elements, the payloads Encode produces for    *)
(* them in every iteration order decoded into either handle, and a payload *)
(* with a key that has no value.                                           *)
(***************************************************************************)
\* the payloads Encode produces for h, one for every iteration order
EncodedBy(h) ==
  {Encode(h, it) : it \in IterOrders(DOMAIN values_[tensors_[h]])}

\* the payloads Encode produces in the current state
Encoded == UNION {EncodedBy(h) : h \in {g \in TableHandles : Usable(g)}}

\* a payload whose last key has no value
DanglingKey ==
  [metadata |-> <<"DT_FLOAT", DefaultMaxNumElements, UnknownShape>>,
   tensors |-> <<OwnKey>>]

NextCodec ==
  \/ \E h \in TableHandles : DefaultConstruct(h) /\ UNCHANGED threadVars
  \/ \E h \in TableHandles, n \in MaxNumElementsValues : SetMaxNumElements(h, n)
        /\ UNCHANGED threadVars
  \/ \E h \in TableHandles, k \in Keys, v \in Tensors, r \in BOOLEAN : insert(h, k, v, r)
        /\ UNCHANGED threadVars
  \/ \E h \in TableHandles, data \in Encoded \cup {DanglingKey}, r \in BOOLEAN :
        Decode(h, data, r) /\ UNCHANGED threadVars

SpecCodec == Init /\ [][NextCodec]_vars

(***************************************************************************)
(* Concurrent callers.  Each thread works on handles of its own; threads   *)
(* meet only in the storage their handles share.  Ref() and Unref() of     *)
(* the storage are atomic, so each is one step.  The copy constructor is   *)
(* two steps of its thread: the member initialisers read the source        *)
(* handle, the body calls tensors_->Ref().  A handle under construction is *)
(* not live yet.  A caller's test of RefCountIsOne() and the table         *)
(* operation it guards are two steps as well; the callers that test own    *)
(* the handles in TableHandles.                                            *)
(***************************************************************************)
\* a copy of src was constructed: what src's caller saw is out of date
CopyOf(src) == [observed EXCEPT ![src] = IF @ = "exclusive" THEN "stale" ELSE @]

\* TensorMap(const TensorMap& other), the member initialisers
CopyInit(h, other) ==
  /\ fault = "none"
  /\ ~live[h]
  /\ pending[h] = NULL
  /\ live[other]
  /\ element_shape' = [element_shape EXCEPT ![h] = element_shape[other]]
  /\ element_dtype' = [element_dtype EXCEPT ![h] = element_dtype[other]]
  /\ max_num_elements' = [max_num_elements EXCEPT ![h] = max_num_elements[other]]
  /\ tensors_' = [tensors_ EXCEPT ![h] = tensors_[other]]
  /\ pending' = [pending EXCEPT ![h] = other]
  /\ observed' = CopyOf(other)
  /\ UNCHANGED <<live, heapVars, fault>>

\* a copy constructor whose body does not take its reference
CopyRefNoRef(h) ==
  /\ fault = "none"
  /\ pending[h] # NULL
  /\ live' = [live EXCEPT ![h] = TRUE]
  /\ pending' = [pending EXCEPT ![h] = NULL]
  /\ observed' = CopyOf(pending[h])
  /\ UNCHANGED <<headerVars, tensors_, heapVars, fault>>

\* TensorMap(const TensorMap& other), the body: tensors_->Ref()
CopyRef(h) ==
  /\ fault = "none"
  /\ pending[h] # NULL
  /\ IF tensors_[h] = NULL
       THEN /\ Crash("CopyConstruct")
            /\ pending' = [g \in Handles |-> NULL]
            /\ observed' = [g \in Handles |-> "none"]
       ELSE /\ live' = [live EXCEPT ![h] = TRUE]
            /\ SetHeap(Ref(Heap, tensors_[h]))
            /\ pending' = [pending EXCEPT ![h] = NULL]
            /\ observed' = CopyOf(pending[h])
            /\ UNCHANGED <<headerVars, tensors_, fault>>

\* a thread default-constructs a handle that no other thread is constructing
ThreadConstruct(h) ==
  /\ pending[h] = NULL
  /\ DefaultConstruct(h)
  /\ UNCHANGED threadVars

\* a thread destroys its handle; the thread that copies from a handle keeps
\* that handle alive until its copy is constructed
ThreadDestroy(h) ==
  /\ \A g \in Handles : pending[g] # h
  /\ Destroy(h)
  /\ observed' = [observed EXCEPT ![h] = "none"]
  /\ UNCHANGED pending

\* a caller that acts on whatever the reference count is
CheckAlways(h) ==
  /\ fault = "none"
  /\ Usable(h)
  /\ observed' = [observed EXCEPT ![h] = "exclusive"]
  /\ UNCHANGED <<handleVars, heapVars, fault, pending>>

\* a caller tests h.RefCountIsOne().  The count does not include a copy of h
\* whose constructor has not called Ref() yet: such a copy is constructed
\* after the test.
Check(h) ==
  /\ fault = "none"
  /\ Usable(h)
  /\ observed' = [observed EXCEPT ![h] =
                    IF ~RefCountIsOne(h) THEN "none"
                    ELSE IF \E g \in Handles : pending[g] = h THEN "stale"
                    ELSE "exclusive"]
  /\ UNCHANGED <<handleVars, heapVars, fault, pending>>

\* a thread inserts through its handle while no other thread is inside a call
\* on the same storage; what it saw of the count is used up
ThreadInsert(h, key, value, r) ==
  /\ insert(h, key, value, r)
  /\ observed' = [observed EXCEPT ![h] = "none"]
  /\ UNCHANGED pending

\* a thread erases through its handle while no other thread is inside a call
\* on the same storage
ThreadErase(h, key, r) ==
  /\ erase(h, key, r)
  /\ observed' = [observed EXCEPT ![h] = "none"]
  /\ UNCHANGED pending

\* Two threads are inside insert or erase at the same time, through handles h
\* and g of one storage.  values_ is a flat_hash_map without a lock, so this
\* is a data race and the behaviour is undefined.  fault = "data race" stands
\* for every outcome that is not the outcome of the two calls in some order:
\* the process killed, or the calls returning any values and leaving a table
\* that no sequence of calls produces (one key stored twice, size() 2).
\* Nothing is modelled after it.
DataRace(h, g) ==
  /\ fault = "none"
  /\ h # g
  /\ Usable(h)
  /\ Usable(g)
  /\ tensors_[h] = tensors_[g]
  /\ Crash("data race")
  /\ pending' = [f \in Handles |-> NULL]
  /\ observed' = [f \in Handles |-> "none"]

\* insert through h at the same time as insert through g; r and s are what
\* the two calls return
RaceInsert(h, g, key, value, r, s) ==
  /\ r \in BOOLEAN
  /\ s \in BOOLEAN
  /\ DataRace(h, g)

\* erase through h at the same time as erase through g
RaceErase(h, g, key, r, s) ==
  /\ r \in 0..1
  /\ s \in 0..1
  /\ DataRace(h, g)

\* insert through h at the same time as erase through g
RaceInsertErase(h, g, key, value, r, s) ==
  /\ r \in BOOLEAN
  /\ s \in 0..1
  /\ DataRace(h, g)

\* the live handles whose tensors_ is p
LiveOn(p) == {f \in Handles : live[f] /\ tensors_[f] = p}

NextThreads ==
  \/ \E h \in Handles : ThreadConstruct(h)
  \/ \E h, other \in Handles : CopyInit(h, other)
  \/ \E h \in Handles : CopyRef(h)
  \/ \E h \in Handles : ThreadDestroy(h)
  \/ \E h \in TableHandles : Check(h)
  \/ \E h \in Handles, r \in BOOLEAN : ThreadInsert(h, OwnKey, ZeroTensor, r)
  \/ \E h \in Handles, r \in 0..1 : ThreadErase(h, OwnKey, r)
  \/ \E h \in Handles : \E g \in LiveOn(tensors_[h]), r, s \in BOOLEAN :
        RaceInsert(h, g, OwnKey, ZeroTensor, r, s)
  \/ \E h \in Handles : \E g \in LiveOn(tensors_[h]), r, s \in 0..1 :
        RaceErase(h, g, OwnKey, r, s)
  \/ \E h \in Handles : \E g \in LiveOn(tensors_[h]), r \in BOOLEAN, s \in 0..1 :
        RaceInsertErase(h, g, OwnKey, ZeroTensor, r, s)

SpecThreads == Init /\ [][NextThreads]_vars

(***************************************************************************)
(* Properties.                                                             *)
(***************************************************************************)
\* the live handles whose tensors_ points to block b
Holders(b) == {h \in Handles : live[h] /\ tensors_[h] = b}

AllDestroyed == \A h \in Handles : ~live[h]

\* C1: the reference count of every live Tensors block equals the number of
\* live handles whose tensors_ points to it and is at least 1, and no live
\* handle that is not moved-from points to a freed block.
RefCountInvariant ==
  /\ \A b \in Blocks :
       block[b] = "allocated" =>
         /\ ref_[b] = Cardinality(Holders(b))
         /\ ref_[b] >= 1
  /\ \A h \in Handles :
       (live[h] /\ tensors_[h] # NULL) => block[tensors_[h]] = "allocated"

\* a block shared by two handles, after another block has been freed
WitnessRefCount ==
  \E b \in Blocks, c \in Blocks :
    /\ block[b] = "allocated" /\ ref_[b] = 2
    /\ Cardinality(Holders(b)) = 2
    /\ block[c] = "freed" /\ ref_[c] = 0

\* C2: once every handle is destroyed no Tensors block is left allocated, no
\* block is ever released after it was freed, and a block is freed only by
\* the step that releases the last reference to it.
FreedAtLastRelease ==
  \A b \in Blocks :
    (block[b] = "allocated" /\ block'[b] # "allocated" /\ fault' = "none") =>
      /\ Cardinality(Holders(b)) = 1
      /\ ref_[b] = 1
      /\ \A h \in Handles : ~(live'[h] /\ tensors_'[h] = b)

FreedExactlyOnce ==
  /\ [](AllDestroyed => \A b \in Blocks : block[b] # "allocated")
  /\ [](\A b \in Blocks : block[b] # "allocated" => ref_[b] = 0)
  /\ [][FreedAtLastRelease]_vars

\* every handle is destroyed and every block that was allocated is freed
WitnessFreedExactlyOnce ==
  /\ AllDestroyed
  /\ fault = "none"
  /\ \A b \in Blocks : block[b] = "freed"

\* C3: RefCountIsOne() is true exactly when no other live handle references
\* the same Tensors block.
RefCountIsOneIffExclusive ==
  \A h \in Handles :
    Usable(h) =>
      (RefCountIsOne(h) <=>
         \A g \in Handles : (g # h /\ live[g]) => tensors_[g] # tensors_[h])

\* two handles share one block, which took the place of a block one of them
\* held alone before: the query is false for both
WitnessRefCountIsOne ==
  \E a, b \in Handles :
    /\ a # b /\ Usable(a) /\ Usable(b)
    /\ tensors_[a] = tensors_[b]
    /\ ~RefCountIsOne(a) /\ ~RefCountIsOne(b)
    /\ \E c \in Blocks : block[c] = "freed"

\* the header fields of a handle
header(h) == <<element_shape[h], element_dtype[h], max_num_elements[h]>>

\* a step that is insert, replace, erase or operator[] called through h
TableStepVia(h) ==
  \E k \in Keys :
    \/ \E v \in Tensors, r \in BOOLEAN : insert(h, k, v, r)
    \/ \E v \in Tensors, r \in BOOLEAN : replace(h, k, v, r)
    \/ \E r \in Tensors : OperatorIndex(h, k, r)
    \/ \E r \in 0..1 : erase(h, k, r)

\* C4: when b is copy-constructed or copy-assigned from a, both handles give
\* access to the same table object, and every later insert, replace, erase
\* or operator[] through either handle shows through the other: same
\* entries, same size, for as long as neither handle is reassigned.
SharingEstablished ==
  \A a, b \in Handles :
    ((CopyConstruct(b, a) \/ (a # b /\ CopyAssign(b, a))) /\ fault' = "none") =>
      /\ tensors_'[b] = tensors_'[a]
      /\ tensors_'[a] = tensors_[a]
      /\ tensors(a)' = tensors(a)

\* after the step a and b give access to the same table as before, with the
\* same entries and size through both
SameView(a, b) ==
  /\ tensors_'[a] = tensors_'[b]
  /\ tensors_'[a] = tensors_[a]
  /\ size(a)' = size(b)'
  /\ \A k \in Keys : find(a, k)' = find(b, k)'

SharingMaintained ==
  \A a, b \in Handles :
    (a # b /\ Usable(a) /\ Usable(b) /\ tensors_[a] = tensors_[b]) =>
      /\ ~SameView(a, b) => ~(TableStepVia(a) \/ TableStepVia(b))
      /\ \A k \in Keys, v \in Tensors :
           /\ insert(a, k, v, TRUE) => find(b, k)' = <<"entry", k, v>>
           /\ replace(a, k, v, TRUE) => find(b, k)' = <<"entry", k, v>>
           /\ OperatorIndex(a, k, v) => find(b, k)' = <<"entry", k, v>>
      /\ \A k \in Keys, r \in 0..1 :
           erase(a, k, r) => find(b, k)' = End

SharedTable == [][SharingEstablished /\ SharingMaintained]_vars

\* two handles give access to one table that holds every key
WitnessSharedTable ==
  \E a, b \in Handles :
    /\ a # b /\ Usable(a) /\ Usable(b)
    /\ tensors_[a] = tensors_[b]
    /\ size(a) = NumKeys /\ size(b) = NumKeys

\* C5: Copy() yields a handle on a fresh block with reference count 1 whose
\* table equals the source's and whose header fields equal the source's,
\* and leaves the source's table and reference count as they were; a table
\* operation through one handle changes no table but the one that handle
\* points to.
CopyIsFresh ==
  \A a, b \in Handles :
    (Copy(a, b) /\ fault' = "none") =>
      /\ tensors_'[b] # NULL
      /\ tensors_'[b] # tensors_[a]
      /\ block[tensors_'[b]] # "allocated"
      /\ block'[tensors_'[b]] = "allocated"
      /\ ref_'[tensors_'[b]] = 1
      /\ values_'[tensors_'[b]] = values_[tensors_[a]]
      /\ header(b)' = header(a)
      /\ header(a)' = header(a)
      /\ tensors_'[a] = tensors_[a]
      /\ values_'[tensors_[a]] = values_[tensors_[a]]
      /\ ref_'[tensors_[a]] = ref_[tensors_[a]]

\* the step changes no table but the one h points to, and no tensors_
LocalTo(h) ==
  /\ tensors_' = tensors_
  /\ \A g \in Handles :
       (Usable(g) /\ tensors_[g] # tensors_[h]) =>
         /\ tensors(g)' = tensors(g)
         /\ size(g)' = size(g)

\* a step that is not local to h's table is no table operation through h
TableStepIsLocal ==
  \A h \in Handles : (Usable(h) /\ ~LocalTo(h)) => ~TableStepVia(h)

CopyIsolation == [][CopyIsFresh /\ TableStepIsLocal]_vars

\* two handles with equal header fields on two blocks of count 1 whose
\* tables agree on one key and differ on another
WitnessCopyIsolation ==
  \E a, b \in Handles :
    /\ Usable(a) /\ Usable(b)
    /\ tensors_[a] # tensors_[b]
    /\ RefCountIsOne(a) /\ RefCountIsOne(b)
    /\ header(a) = header(b)
    /\ \E k \in Keys : find(a, k) # End /\ find(a, k) = find(b, k)
    /\ \E k \in Keys : find(a, k) # End /\ find(b, k) = End

\* C6: copy-assign a = b with a and b distinct makes a's header fields b's,
\* drops one reference of the block a held (freeing it when that was the
\* last), adds one reference to b's block and leaves a pointing to b's
\* block; with a and b the same handle it changes no header field and no
\* reference count and frees nothing.
CopyAssignEffect ==
  \A a, b \in Handles :
    (live[a] /\ Usable(b) /\ CopyAssign(a, b)) =>
      IF a = b
        THEN UNCHANGED <<headerVars, tensors_, block, ref_>>
        ELSE /\ header(a)' = header(b)
             /\ header(b)' = header(b)
             /\ tensors_'[a] = tensors_[b]
             /\ block'[tensors_[b]] = "allocated"
             /\ (tensors_[a] # NULL /\ tensors_[a] # tensors_[b]) =>
                  /\ ref_'[tensors_[b]] = ref_[tensors_[b]] + 1
                  /\ IF ref_[tensors_[a]] = 1
                       THEN block'[tensors_[a]] = "freed"
                       ELSE /\ block'[tensors_[a]] = "allocated"
                            /\ ref_'[tensors_[a]] = ref_[tensors_[a]] - 1
             /\ tensors_[a] = tensors_[b] => ref_' = ref_

CopyAssignContract == [][CopyAssignEffect]_vars

\* C7: move-construct and move-assign change no reference count and free
\* nothing, self move-assign changes nothing, and whatever is destroyed
\* afterwards no live handle points to a freed block and no freed block is
\* released again.
\* a step that changes a block, a count or a table is no move, and a step
\* that changes anything is no self move-assign
MoveKeepsCounts ==
  /\ (<<block, ref_, values_>>' # <<block, ref_, values_>>) =>
       \A h, rhs \in Handles : ~(MoveConstruct(h, rhs) \/ MoveAssign(h, rhs))
  /\ (vars' # vars) => \A h \in Handles : ~MoveAssign(h, h)

NoDanglingHandle ==
  \A h \in Handles :
    (live[h] /\ tensors_[h] # NULL) =>
      /\ block[tensors_[h]] = "allocated"
      /\ ref_[tensors_[h]] >= Cardinality(Holders(tensors_[h]))

NoReleaseAfterFree == \A b \in Blocks : block[b] # "allocated" => ref_[b] = 0

MoveSafety ==
  /\ [][MoveKeepsCounts]_vars
  /\ [](NoDanglingHandle /\ NoReleaseAfterFree)

\* a moved-from handle next to the handle that took over its block, the only
\* reference to it
WitnessMoveSafety ==
  \E h, g \in Handles :
    /\ live[g] /\ tensors_[g] = NULL
    /\ Usable(h) /\ RefCountIsOne(h)
    /\ Holders(tensors_[h]) = {h}

\* a step that writes a header field of h
HeaderWriteVia(h) ==
  \/ \E s \in Shapes : SetElementShape(h, s)
  \/ \E d \in DTypes : SetElementDtype(h, d)
  \/ \E n \in MaxNumElementsValues : SetMaxNumElements(h, n)

\* C8: writing a header field of one handle never changes the header fields
\* of another handle, also when both share one block, and table operations
\* never change any handle's header fields.
\* a step that changes a header field of a handle other than h is no header
\* write through h, and a step that changes any header field is no table
\* operation
HeaderIsPerHandle ==
  \A h \in Handles :
    /\ (\E g \in Handles : g # h /\ header(g)' # header(g)) => ~HeaderWriteVia(h)
    /\ (\E g \in Handles : header(g)' # header(g)) => ~TableStepVia(h)

HeaderFieldsNotShared == [][HeaderIsPerHandle]_vars

\* two handles on one block with a non-empty table differ in all three
\* header fields
WitnessHeaderFieldsNotShared ==
  \E a, b \in Handles :
    /\ a # b /\ Usable(a) /\ Usable(b)
    /\ tensors_[a] = tensors_[b]
    /\ size(a) > 0
    /\ element_shape[a] # element_shape[b]
    /\ element_dtype[a] # element_dtype[b]
    /\ max_num_elements[a] # max_num_elements[b]

\* C9: keys() returns exactly the keys of the table: as many elements as
\* size(), every key once, nothing else.
KeysAreTheKeys ==
  \A h \in Handles :
    Usable(h) =>
      \A it \in IterOrders(DOMAIN tensors(h)) :
        LET ks == keys(h, it) IN
        /\ Len(ks) = size(h)
        /\ \A k \in DOMAIN tensors(h) :
             Cardinality({i \in 1..Len(ks) : ks[i] = k}) = 1
        /\ \A i \in 1..Len(ks) : ks[i] \in DOMAIN tensors(h)

\* C10: insert on an absent key adds key -> value, grows size() by one and
\* returns true; on a present key it returns false and leaves the stored
\* value and every table as they were.
InsertEffect ==
  \A h \in Handles :
    Usable(h) =>
      \A k \in Keys, v \in Tensors, r \in BOOLEAN :
        insert(h, k, v, r) =>
          IF find(h, k) = End
            THEN /\ r = TRUE
                 /\ size(h)' = size(h) + 1
                 /\ find(h, k)' = <<"entry", k, v>>
                 /\ \A k2 \in Keys : k2 # k => find(h, k2)' = find(h, k2)
            ELSE /\ r = FALSE
                 /\ find(h, k)' = find(h, k)
                 /\ values_' = values_

\* in every state insert on a present key can return false, with every
\* table as it was, and cannot return true; on an absent key it can return
\* true, with the entry added, and cannot return false
InsertReturns ==
  \A h \in Handles :
    Usable(h) =>
      \A k \in Keys, v \in Tensors :
        IF find(h, k) = End
          THEN /\ ENABLED (/\ insert(h, k, v, TRUE)
                           /\ find(h, k)' = <<"entry", k, v>>)
               /\ ~ENABLED insert(h, k, v, FALSE)
          ELSE /\ ENABLED (insert(h, k, v, FALSE) /\ values_' = values_)
               /\ ~ENABLED insert(h, k, v, TRUE)
               /\ ~ENABLED (insert(h, k, v, FALSE) /\ values_' # values_)

InsertNoOverwrite == []InsertReturns /\ [][InsertEffect]_vars

\* a table whose only entry holds the empty tensor
WitnessInsertNoOverwrite ==
  \E h \in Handles, k \in Keys :
    /\ Usable(h)
    /\ size(h) = 1
    /\ find(h, k) = <<"entry", k, DefaultTensor>>

\* C11: replace(key, value) returns true and leaves key mapped to value: it
\* adds the entry (size() + 1) when the key is absent and overwrites the
\* stored value (size() unchanged) when it is present, whatever value an
\* earlier replace stored, and changes no other entry and no other table.
ReplaceEffect ==
  \A h \in Handles :
    Usable(h) =>
      \A k \in Keys, v \in Tensors, r \in BOOLEAN :
        replace(h, k, v, r) =>
          /\ r = TRUE
          /\ find(h, k)' = <<"entry", k, v>>
          /\ size(h)' = IF find(h, k) = End THEN size(h) + 1 ELSE size(h)
          /\ \A k2 \in Keys : k2 # k => find(h, k2)' = find(h, k2)
          /\ \A b \in Blocks : b # tensors_[h] => values_'[b] = values_[b]

\* in every state a replace through a usable handle can be taken, and taking
\* it leaves the value stored
ReplaceStores ==
  \A h \in Handles :
    Usable(h) =>
      \A k \in Keys, v \in Tensors :
        ENABLED (replace(h, k, v, TRUE) /\ find(h, k)' = <<"entry", k, v>>)

ReplaceAlwaysStores == []ReplaceStores /\ [][ReplaceEffect]_vars

\* a table in which one key holds the scalar zero next to a key that holds
\* the empty tensor
WitnessReplaceAlwaysStores ==
  \E h \in Handles, k \in Keys, k2 \in Keys :
    /\ Usable(h) /\ k # k2
    /\ find(h, k) = <<"entry", k, ZeroTensor>>
    /\ find(h, k2) = <<"entry", k2, DefaultTensor>>
    /\ size(h) = 2

\* C12: erase(key) can be called on every key: on an absent key it returns
\* 0 and leaves every table as it was; on a present key it returns 1,
\* removes that entry and no other and lowers size() by one; after it
\* find(key) reports end() through every handle that shares the table.
EraseEffect ==
  \A h \in Handles :
    Usable(h) =>
      \A k \in Keys, r \in 0..1 :
        erase(h, k, r) =>
          /\ IF find(h, k) = End
               THEN r = 0 /\ values_' = values_
               ELSE r = 1 /\ size(h)' = size(h) - 1
          /\ \A k2 \in Keys : k2 # k => find(h, k2)' = find(h, k2)
          /\ \A b \in Blocks : b # tensors_[h] => values_'[b] = values_[b]
          /\ \A g \in Handles :
               (Usable(g) /\ tensors_[g] = tensors_[h]) => find(g, k)' = End

\* in every state erase through a usable handle can be taken on every key,
\* returns the number of entries the key had and leaves the key absent
EraseIsTotal ==
  \A h \in Handles :
    Usable(h) =>
      \A k \in Keys :
        ENABLED (/\ erase(h, k, IF find(h, k) = End THEN 0 ELSE 1)
                 /\ find(h, k)' = End)

EraseRemoves == []EraseIsTotal /\ [][EraseEffect]_vars

\* two handles share a table from which one key is gone while another key
\* is still there
WitnessEraseRemoves ==
  \E a, b \in Handles, k \in Keys, k2 \in Keys :
    /\ a # b /\ Usable(a) /\ Usable(b) /\ tensors_[a] = tensors_[b]
    /\ find(a, k) = End /\ find(b, k) = End
    /\ find(b, k2) # End

\* C13: Zeros() yields a handle on a fresh block with reference count 1 and
\* header fields equal to the source's, whose table has exactly the source's
\* keys, each mapped to Tensor(0); it leaves the source's table and
\* reference count as they were, and a later table operation through either
\* handle changes only the table of that handle.
ZerosIsFresh ==
  \A a, b \in Handles :
    (Zeros(a, b) /\ fault' = "none") =>
      /\ tensors_'[b] # NULL
      /\ tensors_'[b] # tensors_[a]
      /\ block[tensors_'[b]] # "allocated"
      /\ block'[tensors_'[b]] = "allocated"
      /\ ref_'[tensors_'[b]] = 1
      /\ DOMAIN values_'[tensors_'[b]] = DOMAIN values_[tensors_[a]]
      /\ \A k \in DOMAIN values_'[tensors_'[b]] :
           values_'[tensors_'[b]][k] = ZeroTensor
      /\ header(b)' = header(a)
      /\ header(a)' = header(a)
      /\ tensors_'[a] = tensors_[a]
      /\ values_'[tensors_[a]] = values_[tensors_[a]]
      /\ ref_'[tensors_[a]] = ref_[tensors_[a]]

ZerosStructure == [][ZerosIsFresh /\ TableStepIsLocal]_vars

\* two handles with equal header fields on two blocks of count 1 with the
\* same keys: one table holds an empty tensor where the other holds zeros
\* only, and one key more after an insert through that handle
WitnessZerosStructure ==
  \E a, b \in Handles :
    /\ Usable(a) /\ Usable(b)
    /\ tensors_[a] # tensors_[b]
    /\ RefCountIsOne(a) /\ RefCountIsOne(b)
    /\ header(a) = header(b)
    /\ size(a) = 1 /\ size(b) = 2
    /\ \E k \in Keys : find(a, k) = <<"entry", k, DefaultTensor>>
                       /\ find(b, k) = <<"entry", k, ZeroTensor>>

\* C14: max_num_elements is advisory: whatever its value, also 0 and values
\* below the current size(), insert, replace and operator[] on an absent key
\* add the entry, so that size() can exceed max_num_elements; and no table
\* operation changes max_num_elements.
AbsentKeyIsAdded ==
  \A h \in Handles :
    Usable(h) =>
      \A k \in Keys :
        find(h, k) = End =>
          /\ \A v \in Tensors :
               /\ ENABLED (insert(h, k, v, TRUE) /\ size(h)' = size(h) + 1)
               /\ ENABLED (replace(h, k, v, TRUE) /\ size(h)' = size(h) + 1)
          /\ ENABLED (OperatorIndex(h, k, DefaultTensor) /\ size(h)' = size(h) + 1)

\* a step that changes max_num_elements of some handle is no table operation
TableStepKeepsMax ==
  \A h \in Handles :
    max_num_elements' # max_num_elements => ~TableStepVia(h)

MaxNumElementsAdvisory == []AbsentKeyIsAdded /\ [][TableStepKeepsMax]_vars

\* a handle whose max_num_elements is 0 and whose table holds every key
WitnessMaxNumElementsAdvisory ==
  \E h \in Handles :
    /\ Usable(h)
    /\ max_num_elements[h] = 0
    /\ size(h) = NumKeys
    /\ size(h) > max_num_elements[h]

\* C18: copy-assign a = b with a and b distinct handles on one block never
\* frees the block and leaves its reference count and table as they were;
\* a keeps pointing to the block, which stays allocated.
CopyAssignAmongSharers ==
  \A a, b \in Handles :
    (/\ a # b /\ Usable(a) /\ Usable(b)
     /\ tensors_[a] = tensors_[b]
     /\ CopyAssign(a, b)) =>
      /\ fault' = "none"
      /\ tensors_'[a] = tensors_[a]
      /\ tensors_'[b] = tensors_[b]
      /\ block'[tensors_[a]] = "allocated"
      /\ ref_'[tensors_[a]] = ref_[tensors_[a]]
      /\ ref_'[tensors_[a]] >= 2
      /\ values_' = values_
      /\ header(a)' = header(b)

\* in every state where two handles share a block the assignment can be
\* taken and ends with the block allocated
CopyAssignAmongSharersEnabled ==
  \A a, b \in Handles :
    (a # b /\ Usable(a) /\ Usable(b) /\ tensors_[a] = tensors_[b]) =>
      ENABLED (CopyAssign(a, b) /\ block'[tensors_[a]] = "allocated"
                                /\ fault' = "none")

SharedAssignKeepsStorage ==
  []CopyAssignAmongSharersEnabled /\ [][CopyAssignAmongSharers]_vars

\* two handles share a block of count 2 with equal header fields after an
\* earlier assignment freed another block
WitnessSharedAssignKeepsStorage ==
  \E a, b \in Handles :
    /\ a # b /\ Usable(a) /\ Usable(b)
    /\ tensors_[a] = tensors_[b]
    /\ ref_[tensors_[a]] = 2
    /\ header(a) = header(b)
    /\ \E c \in Blocks : block[c] = "freed"

\* C19 as stated: move-assign a = std::move(b) with a and b distinct, a any
\* handle that may be assigned to and b a handle that holds a block, leaves a
\* with the block b held and b, not null, with the block a held.
MoveAssignLeavesSourceNonNull ==
  [][\A a, b \in Handles :
       (a # b /\ live[a] /\ Usable(b) /\ MoveAssign(a, b)) =>
         /\ tensors_'[a] = tensors_[b]
         /\ tensors_'[b] = tensors_[a]
         /\ tensors_'[b] # NULL]_vars

\* C19: move-assign a = std::move(b) with a and b distinct handles that each
\* hold a block swaps the two pointers: a points to the block b held and b
\* to the block a held, b is not null and keeps its header fields, a takes
\* b's header fields, and no block is released: every reference count and
\* table is as before.  A block is freed only by a step after which the
\* handle that held it no longer points to it.  When a is a moved-from
\* handle the same swap leaves b with the null pointer of a: a takes the
\* block and the header fields of b, b keeps its header fields, and every
\* reference count and table is as before.
MoveAssignEffect ==
  \A a, b \in Handles :
    (a # b /\ Usable(a) /\ Usable(b) /\ MoveAssign(a, b)) =>
      /\ tensors_'[a] = tensors_[b]
      /\ tensors_'[b] = tensors_[a]
      /\ tensors_'[b] # NULL
      /\ header(b)' = header(b)
      /\ header(a)' = header(b)
      /\ block' = block /\ ref_' = ref_ /\ values_' = values_
      /\ block'[tensors_[a]] = "allocated"
      /\ fault' = "none"

\* in every state the assignment between two handles that hold blocks can
\* be taken and leaves b with the block a held
MoveAssignEnabled ==
  \A a, b \in Handles :
    (a # b /\ Usable(a) /\ Usable(b)) =>
      ENABLED (MoveAssign(a, b) /\ tensors_'[b] = tensors_[a]
                                /\ tensors_'[a] = tensors_[b])

\* the assignment to a moved-from handle a: a takes what b held and b is
\* left moved-from
MoveAssignToMovedFrom ==
  \A a, b \in Handles :
    (a # b /\ live[a] /\ tensors_[a] = NULL /\ Usable(b) /\ MoveAssign(a, b)) =>
      /\ tensors_'[a] = tensors_[b]
      /\ tensors_'[b] = NULL
      /\ header(b)' = header(b)
      /\ header(a)' = header(b)
      /\ block' = block /\ ref_' = ref_ /\ values_' = values_
      /\ fault' = "none"

\* in every state the assignment to a moved-from handle can be taken and
\* leaves the source with the null pointer
MoveAssignToMovedFromEnabled ==
  \A a, b \in Handles :
    (a # b /\ live[a] /\ tensors_[a] = NULL /\ Usable(b)) =>
      ENABLED (MoveAssign(a, b) /\ tensors_'[b] = NULL
                                /\ tensors_'[a] = tensors_[b])

MoveAssignSwaps ==
  /\ [](MoveAssignEnabled /\ MoveAssignToMovedFromEnabled)
  /\ [][MoveAssignEffect /\ MoveAssignToMovedFrom /\ FreedAtLastRelease]_vars

\* two handles with equal header fields hold two blocks of count 1, the
\* handle with the higher number the block with the lower number, which
\* carries the entry
WitnessMoveAssignSwaps ==
  \E a, b \in Handles :
    /\ a < b /\ Usable(a) /\ Usable(b)
    /\ tensors_[a] > tensors_[b]
    /\ ref_[tensors_[a]] = 1 /\ ref_[tensors_[b]] = 1
    /\ header(a) = header(b)
    /\ size(b) = 1 /\ size(a) = 0

\* C20: operator[](k) on an absent key adds k with the empty tensor to the
\* table, grows size() by one and returns that tensor, and the entry is
\* seen through every handle that shares the table; on a present key it
\* returns the stored tensor and leaves every table as it was.
OperatorIndexEffect ==
  \A h \in Handles :
    Usable(h) =>
      \A k \in Keys, r \in Tensors :
        OperatorIndex(h, k, r) =>
          /\ IF find(h, k) = End
               THEN /\ r = DefaultTensor
                    /\ size(h)' = size(h) + 1
                    /\ \A g \in Handles :
                         (Usable(g) /\ tensors_[g] = tensors_[h]) =>
                           /\ find(g, k)' = <<"entry", k, DefaultTensor>>
                           /\ size(g)' = size(h) + 1
               ELSE /\ find(h, k) = <<"entry", k, r>>
                    /\ values_' = values_
          /\ \A k2 \in Keys : k2 # k => find(h, k2)' = find(h, k2)
          /\ \A b \in Blocks : b # tensors_[h] => values_'[b] = values_[b]

\* in every state operator[] on an absent key can be taken and adds the key
OperatorIndexAdds ==
  \A h \in Handles :
    Usable(h) =>
      \A k \in Keys :
        find(h, k) = End =>
          ENABLED (/\ OperatorIndex(h, k, DefaultTensor)
                   /\ find(h, k)' = <<"entry", k, DefaultTensor>>)

\* in every state operator[] on a present key can return the stored tensor,
\* with every table as it was, and nothing else; on an absent key it
\* returns the empty tensor and nothing else
OperatorIndexReturns ==
  \A h \in Handles :
    Usable(h) =>
      \A k \in Keys, r \in Tensors :
        IF find(h, k) = End
          THEN r # DefaultTensor => ~ENABLED OperatorIndex(h, k, r)
          ELSE IF find(h, k) = <<"entry", k, r>>
                 THEN /\ ENABLED (OperatorIndex(h, k, r) /\ values_' = values_)
                      /\ ~ENABLED (OperatorIndex(h, k, r) /\ values_' # values_)
                 ELSE ~ENABLED OperatorIndex(h, k, r)

OperatorIndexInserts ==
  /\ [](OperatorIndexAdds /\ OperatorIndexReturns)
  /\ [][OperatorIndexEffect]_vars

\* two handles share a table whose only entry holds the empty tensor
WitnessOperatorIndexInserts ==
  \E a, b \in Handles, k \in Keys :
    /\ a # b /\ Usable(a) /\ Usable(b)
    /\ tensors_[a] = tensors_[b]
    /\ size(a) = 1 /\ size(b) = 1
    /\ find(a, k) = <<"entry", k, DefaultTensor>>
    /\ find(b, k) = <<"entry", k, DefaultTensor>>

\* after the step dst has the header fields and the entries m had before it
RoundTrip(dst, m) ==
  /\ header(dst)' = header(m)
  /\ values_'[tensors_[dst]] = values_[tensors_[m]]

\* C17: decoding the payload that Encode produces for a handle m, in any
\* iteration order, into any destination handle, whatever table the
\* destination holds, returns true and leaves the destination with the
\* header fields of m and with a table that has exactly the entries of m:
\* the call can be taken with that outcome, never returns true with
\* another outcome, and never returns false.
EncodeDecodeRoundTrip ==
  \A dst, m \in Handles :
    (Usable(dst) /\ Usable(m)) =>
      \A data \in EncodedBy(m) :
        /\ ENABLED (Decode(dst, data, TRUE) /\ RoundTrip(dst, m))
        /\ ~ENABLED (Decode(dst, data, TRUE) /\ ~RoundTrip(dst, m))
        /\ ~ENABLED Decode(dst, data, FALSE)

\* two handles on two blocks with the same header fields, max_num_elements
\* not the initial one, and the same table, which holds every key and both
\* tensors
WitnessEncodeDecodeRoundTrip ==
  \E a, b \in Handles :
    /\ a # b /\ Usable(a) /\ Usable(b)
    /\ tensors_[a] # tensors_[b]
    /\ header(a) = header(b)
    /\ max_num_elements[a] # DefaultMaxNumElements
    /\ values_[tensors_[a]] = values_[tensors_[b]]
    /\ size(a) = NumKeys
    /\ \E k \in Keys : find(a, k) = <<"entry", k, ZeroTensor>>
    /\ \E k \in Keys : find(a, k) = <<"entry", k, DefaultTensor>>

\* a handle under construction points to allocated storage that its source,
\* still alive, holds too
PendingIsSafe ==
  \A h \in Handles :
    pending[h] # NULL =>
      /\ ~live[h]
      /\ live[pending[h]]
      /\ tensors_[h] = tensors_[pending[h]]
      /\ block[tensors_[h]] = "allocated"

\* when every handle is destroyed and none is under construction, every
\* storage has been freed
AllFreedAtEnd ==
  (AllDestroyed /\ \A h \in Handles : pending[h] = NULL) =>
    \A b \in Blocks : block[b] # "allocated"

\* C15: when threads copy-construct from and destroy distinct handles that
\* share a storage, in any interleaving, the reference count of the storage
\* is the number of live handles that point to it, the storage is freed at
\* the step that destroys its last handle and at no other, and no live handle
\* and no handle under construction points to freed storage.
ConcurrentRefCount ==
  /\ [](RefCountInvariant /\ PendingIsSafe /\ AllFreedAtEnd)
  /\ [][FreedAtLastRelease]_vars

\* one thread has read handle h for its copy c and not yet taken the
\* reference, while another thread is about to destroy d, which shares the
\* storage of h
WitnessConcurrentRefCount ==
  \E h, c, d \in Handles :
    /\ pending[c] = h
    /\ d # h
    /\ live[d]
    /\ tensors_[d] = tensors_[h]
    /\ ref_[tensors_[h]] = 2
    /\ OwnKey \in DOMAIN tensors(h)
    /\ ENABLED ThreadDestroy(d)

\* the handles other than h, live or under construction, that point to the
\* storage of h
Sharers(h) ==
  {g \in Handles \ {h} :
     (live[g] \/ pending[g] # NULL) /\ tensors_[g] = tensors_[h]}

\* a table operation through h, as a step
Mutation(h) ==
  \/ \E k \in Keys, v \in Tensors, r \in BOOLEAN : ThreadInsert(h, k, v, r)
  \/ \E k \in Keys, r \in 0..1 : ThreadErase(h, k, r)
  \/ \E g \in Handles : DataRace(h, g)

\* the step changes the table of h
MutationActs(h) == tensors(h)' # tensors(h)

\* the step changes the table that a handle other than h reads
MutationObserved(h) ==
  \E g \in Handles \ {h} :
    /\ live[g] \/ pending[g] # NULL
    /\ tensors_[g] # NULL
    /\ values_'[tensors_[g]] # values_[tensors_[g]]

\* after RefCountIsOne() returned true for h and no copy of h was constructed
\* since, h is the only handle of its storage and no table operation through
\* h changes what another handle reads
ExclusiveCheckHolds ==
  \A h \in Handles :
    observed[h] = "exclusive" =>
      /\ Usable(h)
      /\ RefCountIsOne(h)
      /\ Sharers(h) = {}
      /\ ENABLED (Mutation(h) /\ MutationActs(h))
      /\ ~ENABLED (Mutation(h) /\ MutationObserved(h))

\* after a copy of h was constructed since RefCountIsOne() returned true, and
\* while that copy lives, a table operation through h changes what the copy
\* reads
StaleCheckFails ==
  \A h \in Handles :
    (observed[h] = "stale" /\ Sharers(h) # {}) =>
      ENABLED (Mutation(h) /\ MutationObserved(h))

\* C16: a table operation through h that follows a call of RefCountIsOne()
\* on h that returned true, with no copy of h constructed in between, is not
\* observable through any other handle, whatever other threads do with their
\* own handles; with a copy of h constructed in between it is observable
\* through that copy, RefCountIsOne() being a snapshot.
CheckThenAct == ExclusiveCheckHolds /\ StaleCheckFails

\* h was seen exclusive and still is, while another thread's handle g was seen
\* exclusive and then copied into c, which shares its storage now
WitnessCheckThenAct ==
  \E h, g, c \in Handles :
    /\ observed[h] = "exclusive"
    /\ observed[g] = "stale"
    /\ live[c]
    /\ c # g
    /\ tensors_[c] = tensors_[g]
    /\ tensors_[g] # tensors_[h]
    /\ OwnKey \in DOMAIN tensors(h)
====
